---- MODULE Spec2Model ----
(***************************************************************************)
(* CRM webhook pipeline: the Ingestion Gateway (src/lambda and             *)
(* src/lambda2, two variants of webhook_ingestion.py) and the Enrichment   *)
(* Processor (src/lambda1 and src/crm-lead-system/lambda, two variants of  *)
(* lead_processor.py), over one object store (the S3 bucket).              *)
(*                                                                         *)
(* JSON values are records with a "kind" field; a missing dict key is      *)
(* ABSENT and Python's None is NONE.  A Python call either returns or      *)
(* raises: operators that model a function return a record whose "exc"     *)
(* field is "" for a normal return and the exception class otherwise.      *)
(***************************************************************************)
EXTENDS Integers, Sequences, FiniteSets, TLC

VARIABLES bucket, accepted, gw, rt, config, proc, race, dl, cfn

vars == <<bucket, accepted, gw, rt, config, proc, race, dl, cfn>>

(***************************************************************************)
(* Bounds of the model.                                                    *)
(***************************************************************************)
\* datetime.utcnow() is drawn from 1..MaxTime
MaxTime == 2
\* with_retry is exercised with max_attempts in 1..MaxRetryAttempts
MaxRetryAttempts == 4
\* processor invocations in one behaviour
MaxRuns == 2
\* deliveries of one batch by the queue: the first and its redeliveries
MaxDeliveries == 3

(***************************************************************************)
(* Program constants.                                                      *)
(***************************************************************************)
SOURCE_PREFIX == "source/"
TARGET_PREFIX == "target/"
\* @with_retry(max_attempts=3) on store_lead_in_s3
STORE_MAX_ATTEMPTS == 3
\* base_delay=0.5 seconds, in milliseconds
BASE_DELAY_MS == 500
\* random.uniform(0, 0.3) seconds, in milliseconds
JITTER_MAX_MS == 300

ABSENT == "<absent>"
NONE == "<None>"

Times == 1..MaxTime

(***************************************************************************)
(* Python helpers.                                                         *)
(***************************************************************************)
\* dict.get(key, default) on a field that may be missing
Get(v, default) == IF v = ABSENT THEN default ELSE v

\* truthiness of a string-or-None field value
Truthy(v) == v \notin {ABSENT, NONE, ""}

\* f"{v}" formatting of a string-or-None value
Fmt(v) == IF v = NONE THEN "None" ELSE v

RECURSIVE Pow2(_)
Pow2(n) == IF n <= 0 THEN 1 ELSE 2 * Pow2(n - 1)

(***************************************************************************)
(* Webhook payloads.                                                       *)
(***************************************************************************)
\* custom_funnel stands for the data key
\* "custom.cf_am3UgCUhyM5iNDtAPL84enDjUrZx1JsyVZ9uD9TbYwG", the funnel custom field
NoData == [kind |-> "absent", display_name |-> ABSENT, status_label |-> ABSENT,
           date_created |-> ABSENT, custom_funnel |-> ABSENT]

\* the data member of an event: missing, null, or an object (here with a display
\* name and without the other keys, so that both the copy and the default are taken)
AcmeData == [NoData EXCEPT !.kind = "object", !.display_name = "Acme Co"]

\* a data object that carries the funnel custom field
FunnelData == [AcmeData EXCEPT !.custom_funnel = "Test Funnel"]

DataValues == { NoData, [NoData EXCEPT !.kind = "null"], FunnelData }

LeadIdValues == {ABSENT, NONE, "", "L1", "L2"}

ActionValues == {ABSENT, "created", "updated"}

NoEvent == [kind |-> "absent", lead_id |-> ABSENT, action |-> ABSENT, data |-> NoData,
            id |-> ABSENT]

\* the event member of the payload: missing, null, a non-object scalar such as
\* "created", or an object with any subset of the keys the code reads
EventValues ==
    { NoEvent, [NoEvent EXCEPT !.kind = "null"], [NoEvent EXCEPT !.kind = "scalar"] }
    \cup { [kind |-> "object", lead_id |-> l, action |-> a, data |-> d, id |-> ABSENT] :
             l \in LeadIdValues, a \in ActionValues, d \in DataValues }

NoBody == [kind |-> "object", event |-> NoEvent, subscription_id |-> ABSENT]

\* the request body: a JSON object, a JSON array, or a string that is not JSON
Payloads ==
    { [kind |-> "object", event |-> e, subscription_id |-> ABSENT] : e \in EventValues }
    \cup { [NoBody EXCEPT !.kind = "array"], [NoBody EXCEPT !.kind = "malformed"] }

\* `not event` on the value of body.get("event")
EventFalsy(e) ==
    \/ e.kind \in {"absent", "null"}
    \/ /\ e.kind = "object"
       /\ e.lead_id = ABSENT /\ e.action = ABSENT /\ e.data.kind = "absent" /\ e.id = ABSENT

(***************************************************************************)
(* The object store.  put_object outcomes are inputs: "ok", a ClientError  *)
(* with the given error code, or another exception.                        *)
(***************************************************************************)
TransientCodes == {"Throttling", "SlowDown", "RequestTimeout"}

PutOutcomes == {"ok"} \cup TransientCodes \cup {"AccessDenied", "Exception"}

NoDoc == [doc |-> "none"]

Put(b, key, doc) == (key :> doc) @@ b

\* the store after a sequence of <<key, document>> writes
RECURSIVE ApplyPuts(_, _)
ApplyPuts(b, puts) ==
    IF puts = <<>> THEN b
    ELSE ApplyPuts(Put(b, Head(puts)[1], Head(puts)[2]), Tail(puts))

RawKeys(b) == { k \in DOMAIN b : b[k].doc = "envelope" }

\* botocore validates parameters before sending: Metadata values must be str
MetadataValid(lead_id) == lead_id # NONE

(***************************************************************************)
(* Retry decorator (src/lambda2).  calls[i] is what the i-th call of the   *)
(* wrapped function does: "return", "RetryableError" or "raise" (any other *)
(* exception).  The result names how the wrapper ends, the number of calls *)
(* made and the waits between them (each wait lies in [min, max] ms).      *)
(***************************************************************************)
CallResults == {"return", "RetryableError", "raise"}

sleep_time(attempt) ==
    [min |-> BASE_DELAY_MS * Pow2(attempt - 1),
     max |-> BASE_DELAY_MS * Pow2(attempt - 1) + JITTER_MAX_MS]

\* mutant: the loop is range(1, max_attempts), one attempt short
RECURSIVE wrapper_short(_, _, _)
wrapper_short(max_attempts, calls, attempt) ==
    IF attempt > max_attempts - 1
    THEN [outcome |-> "None", attempts |-> attempt - 1, sleeps |-> <<>>]
    ELSE CASE calls[attempt] = "return" ->
                [outcome |-> "return", attempts |-> attempt, sleeps |-> <<>>]
           [] calls[attempt] = "RetryableError" ->
                IF attempt = max_attempts - 1
                THEN [outcome |-> "RetryableError", attempts |-> attempt, sleeps |-> <<>>]
                ELSE LET rest == wrapper_short(max_attempts, calls, attempt + 1)
                     IN  [rest EXCEPT !.sleeps = <<sleep_time(attempt)>> \o @]
           [] OTHER ->
                [outcome |-> "raise", attempts |-> attempt, sleeps |-> <<>>]

RECURSIVE wrapper(_, _, _)
wrapper(max_attempts, calls, attempt) ==
    IF attempt > max_attempts
    THEN [outcome |-> "None", attempts |-> attempt - 1, sleeps |-> <<>>]
    ELSE CASE calls[attempt] = "return" ->
                [outcome |-> "return", attempts |-> attempt, sleeps |-> <<>>]
           [] calls[attempt] = "RetryableError" ->
                IF attempt = max_attempts
                THEN [outcome |-> "RetryableError", attempts |-> attempt, sleeps |-> <<>>]
                ELSE LET rest == wrapper(max_attempts, calls, attempt + 1)
                     IN  [rest EXCEPT !.sleeps = <<sleep_time(attempt)>> \o @]
           [] OTHER ->
                [outcome |-> "raise", attempts |-> attempt, sleeps |-> <<>>]

with_retry(max_attempts, calls) == wrapper(max_attempts, calls, 1)

(***************************************************************************)
(* Ingestion Gateway, src/lambda2/webhook_ingestion.py                     *)
(***************************************************************************)
Ok(v) == [exc |-> "", msg |-> "", val |-> v]

Raise(e, m) == [exc |-> e, msg |-> m, val |-> NoBody]

parse_body(body) ==
    IF body.kind = "malformed"
    THEN Raise("ValidationError", "Invalid JSON payload")
    ELSE Ok(body)

validate_webhook_lambda2(body) ==
    IF body.kind # "object" THEN Raise("AttributeError", "no attribute get")
    ELSE IF EventFalsy(body.event) THEN Raise("ValidationError", "Missing event object")
    ELSE IF body.event.kind # "object" THEN Raise("AttributeError", "no attribute get")
    ELSE IF body.event.action # "created"
         THEN Raise("ValidationError", "Unsupported event action")
    ELSE IF body.event.lead_id = ABSENT
         THEN Raise("ValidationError", "Missing required field: lead_id")
    ELSE IF body.event.data.kind = "absent"
         THEN Raise("ValidationError", "Missing required field: data")
    ELSE Ok(body)

\* the canonical lead summary both variants build
LeadData(body) ==
    [lead_id |-> Get(body.event.lead_id, NONE),
     display_name |-> Get(body.event.data.display_name, "Unknown"),
     status_label |-> Get(body.event.data.status_label, "Unknown"),
     date_created |-> Get(body.event.data.date_created, NONE),
     subscription_id |-> Get(body.subscription_id, NONE),
     event_id |-> Get(body.event.id, NONE)]

NoLeadData == LeadData(NoBody)

extract_lead_data_lambda2(body) ==
    IF ~Truthy(body.event.lead_id)
    THEN [exc |-> "ValidationError", msg |-> "lead_id is required", val |-> NoLeadData]
    ELSE IF body.event.data.kind = "null"
    THEN [exc |-> "AttributeError", msg |-> "no attribute get", val |-> NoLeadData]
    ELSE [exc |-> "", msg |-> "", val |-> LeadData(body)]

\* mutant: the braces of the f-string are missing, the key does not depend on the lead
s3_key_literal(lead_id) == SOURCE_PREFIX \o "crm_event_lead_id.json"

\* mutant: the key leaves out the configured prefix
s3_key_noprefix(lead_id) == "crm_event_" \o Fmt(lead_id) \o ".json"

\* the key of the raw envelope of a lead
s3_key(lead_id) == SOURCE_PREFIX \o "crm_event_" \o Fmt(lead_id) \o ".json"

\* the stored envelope: the full body plus processed_at and the summary
Envelope(body, lead_data, now) ==
    [doc |-> "envelope", body |-> body, processed_at |-> now,
     extracted_lead_data |-> lead_data]

\* mutant: every ClientError is tagged retryable
store_call_retry_all(outcome) ==
    CASE outcome = "ok" -> "return"
      [] outcome \in TransientCodes \cup {"AccessDenied"} -> "RetryableError"
      [] OTHER -> "raise"

\* one call of the undecorated store_lead_in_s3, put_object ending as `outcome`
store_call_lambda2(outcome) ==
    CASE outcome = "ok" -> "return"
      [] outcome \in TransientCodes -> "RetryableError"
      [] OTHER -> "raise"

store_lead_in_s3_lambda2(outs) ==
    with_retry(STORE_MAX_ATTEMPTS,
               [i \in 1..STORE_MAX_ATTEMPTS |-> store_call_lambda2(outs[i])])

RespBody(message, lead_id, key, error) ==
    [message |-> message, lead_id |-> lead_id, s3_key |-> key, error |-> error]

create_response(status_code, body) == [statusCode |-> status_code, body |-> body]

ErrorResponse(status_code, error) ==
    create_response(status_code, RespBody(ABSENT, ABSENT, ABSENT, error))

NoRun == [outcome |-> "None", attempts |-> 0, sleeps |-> <<>>]

\* what one invocation does: the response, the durable writes and the retry trace
HandlerResult(resp, run, puts, raised) ==
    [resp |-> resp, attempts |-> run.attempts, sleeps |-> run.sleeps, puts |-> puts,
     raised |-> raised]

\* mutant: the handler has no catch-all clause and the exception escapes
except_Exception_escapes(run) ==
    HandlerResult(create_response(0, RespBody(ABSENT, ABSENT, ABSENT, ABSENT)),
                  run, <<>>, TRUE)

\* except Exception: log and answer 500
except_Exception_lambda2(run) ==
    HandlerResult(ErrorResponse(500, "Internal server error"), run, <<>>, FALSE)

lambda_handler_lambda2(body, outs, now) ==
    LET parsed == parse_body(body)
        valid == validate_webhook_lambda2(body)
        lead == extract_lead_data_lambda2(body)
        early == IF parsed.exc # "" THEN parsed
                 ELSE IF valid.exc # "" THEN valid
                 ELSE IF lead.exc # "" THEN [exc |-> lead.exc, msg |-> lead.msg, val |-> NoBody]
                 ELSE Ok(body)
        run == store_lead_in_s3_lambda2(outs)
        key == s3_key(lead.val.lead_id)
    IN  IF early.exc = "ValidationError"
        THEN HandlerResult(ErrorResponse(400, early.msg), NoRun, <<>>, FALSE)
        ELSE IF early.exc # ""
        THEN except_Exception_lambda2(NoRun)
        ELSE IF run.outcome = "return"
        THEN HandlerResult(
                 create_response(200, RespBody("Lead received and stored successfully",
                                               lead.val.lead_id, key, ABSENT)),
                 run, << <<key, Envelope(body, lead.val, now)>> >>, FALSE)
        ELSE except_Exception_lambda2(run)

(***************************************************************************)
(* Ingestion Gateway, src/lambda/webhook_ingestion.py                      *)
(***************************************************************************)
\* returns TRUE or FALSE; every exception inside is caught and gives FALSE
validate_webhook_lambda(body) ==
    /\ body.kind = "object"
    /\ body.event.kind = "object"
    /\ body.event.lead_id # ABSENT
    /\ body.event.action = "created"
    /\ body.event.data.kind # "absent"

\* returns the summary, or None (exc "None") when building it raised
extract_lead_data_lambda(body) ==
    IF body.event.data.kind = "null"
    THEN [exc |-> "None", msg |-> "", val |-> NoLeadData]
    ELSE [exc |-> "", msg |-> "", val |-> LeadData(body)]

\* store_lead_in_s3: one put_object, every exception logged and re-raised
store_lead_in_s3_lambda(lead_id, outcome) ==
    IF ~MetadataValid(lead_id) THEN [outcome |-> "raise", attempts |-> 0, sleeps |-> <<>>]
    ELSE IF outcome = "ok" THEN [outcome |-> "return", attempts |-> 1, sleeps |-> <<>>]
    ELSE [outcome |-> "raise", attempts |-> 1, sleeps |-> <<>>]

\* except Exception: log and answer 500
except_Exception_lambda(run) ==
    HandlerResult(ErrorResponse(500, "Internal server error"), run, <<>>, FALSE)

lambda_handler_lambda(body, outs, now) ==
    LET lead == extract_lead_data_lambda(body)
        run == store_lead_in_s3_lambda(lead.val.lead_id, outs[1])
        key == s3_key(lead.val.lead_id)
    IN  IF body.kind = "malformed"
        THEN except_Exception_lambda(NoRun)
        ELSE IF ~validate_webhook_lambda(body)
        THEN HandlerResult(ErrorResponse(400, "Invalid webhook payload"), NoRun, <<>>, FALSE)
        ELSE IF lead.exc # ""
        THEN HandlerResult(ErrorResponse(400, "Invalid lead data"), NoRun, <<>>, FALSE)
        ELSE IF run.outcome = "return"
        THEN HandlerResult(
                 create_response(200, RespBody("Lead received and stored successfully",
                                               lead.val.lead_id, key, ABSENT)),
                 run, << <<key, Envelope(body, lead.val, now)>> >>, FALSE)
        ELSE except_Exception_lambda(run)


(***************************************************************************)
(* Enrichment Processor: inputs.  A reference names the key of a stored    *)
(* object; with it come the behaviours of the collaborators while it is    *)
(* processed: `read` is the number of get_object calls that fail with a    *)
(* ClientError before one succeeds, `lookup` what the owner lookup GET     *)
(* does, `write` how put_object of the enriched record ends, `slack` and   *)
(* `email` how the two notification channels end.                          *)
(***************************************************************************)
\* read_s3_json(bucket, key, retries=3)
READ_RETRIES == 3

LookupOutcomes == {"200_full", "200_partial", "404", "timeout", "parse_error"}

ChannelOutcomes == {"ok", "raise"}

NoOwner == [kind |-> "none", lead_email |-> ABSENT, lead_owner |-> ABSENT,
            funnel |-> ABSENT, lead_id |-> ABSENT]

\* the lookup document of a lead with every field
FullOwner ==
    [kind |-> "object", lead_email |-> "jane@example.com", lead_owner |-> "Jane",
     funnel |-> "Inbound", lead_id |-> ABSENT]

\* the lookup document {"lead_owner": "Jane"}
PartialOwner == [NoOwner EXCEPT !.kind = "object", !.lead_owner = "Jane"]

\* `not owner_data`: None, or a dict with no key
OwnerFalsy(o) ==
    \/ o.kind = "none"
    \/ o.lead_email = ABSENT /\ o.lead_owner = ABSENT /\ o.funnel = ABSENT
       /\ o.lead_id = ABSENT

\* the deployment's configuration (environment variables read at start): each
\* channel on or off, and the email channel on without a topic
Configs ==
    { [USE_SLACK |-> sl, USE_EMAIL |-> em, SNS_TOPIC_ARN |-> "arn:aws:sns:leads",
       SLACK_SECRET_NAME |-> "slack/webhook"] : sl \in BOOLEAN, em \in BOOLEAN }
    \cup { [USE_SLACK |-> FALSE, USE_EMAIL |-> TRUE, SNS_TOPIC_ARN |-> "",
            SLACK_SECRET_NAME |-> "slack/webhook"] }

NominalEnv ==
    [read |-> 0, lookup |-> "200_full", write |-> "ok", slack |-> "ok", email |-> "ok"]

(***************************************************************************)
(* Enrichment Processor, src/lambda1/lead_processor.py                     *)
(***************************************************************************)
\* read_s3_json: up to `retries` get_object calls, a wait of 2**attempt seconds
\* after each ClientError but the last; a key the store does not hold fails
\* every call with NoSuchKey
read_s3_json(b, key, failures) ==
    LET f == IF key \in DOMAIN b THEN failures ELSE READ_RETRIES
    IN  IF f >= READ_RETRIES
        THEN [exc |-> "ClientError", attempts |-> READ_RETRIES,
              sleeps |-> [i \in 1..(READ_RETRIES - 1) |-> 1000 * Pow2(i - 1)],
              doc |-> NoDoc]
        ELSE [exc |-> "", attempts |-> f + 1,
              sleeps |-> [i \in 1..f |-> 1000 * Pow2(i - 1)],
              doc |-> b[key]]

\* mutant: the request is made outside the try, a timeout escapes
lookup_lead_owner_unguarded(outcome) ==
    CASE outcome = "200_full" -> [exc |-> "", val |-> FullOwner]
      [] outcome = "200_partial" -> [exc |-> "", val |-> PartialOwner]
      [] outcome = "timeout" -> [exc |-> "TimeoutError", val |-> NoOwner]
      [] OTHER -> [exc |-> "", val |-> NoOwner]

\* lookup_lead_owner: the parsed document on status 200, None otherwise; the
\* request and the parse are inside the try
lookup_lead_owner_lambda1(outcome) ==
    CASE outcome = "200_full" -> [exc |-> "", val |-> FullOwner]
      [] outcome = "200_partial" -> [exc |-> "", val |-> PartialOwner]
      [] OTHER -> [exc |-> "", val |-> NoOwner]

DefaultOwner_lambda1 ==
    [kind |-> "object", lead_email |-> "unknown@example.com", lead_owner |-> "Unassigned",
     funnel |-> "Unknown", lead_id |-> ABSENT]

NoEnriched ==
    [doc |-> "null", lead_id |-> NONE, display_name |-> NONE, status_label |-> NONE,
     date_created |-> NONE, lead_email |-> NONE, lead_owner |-> NONE, funnel |-> NONE,
     enriched_at |-> 0]

enrich_lead_data_lambda1(lead_data, owner, now) ==
    LET event == lead_data.body.event
        data == event.data
        owner_data == IF OwnerFalsy(owner) THEN DefaultOwner_lambda1 ELSE owner
    IN  IF \/ owner_data.lead_email = ABSENT
           \/ owner_data.lead_owner = ABSENT
           \/ owner_data.funnel = ABSENT
        THEN [exc |-> "KeyError", val |-> NoEnriched]
        ELSE [exc |-> "",
              val |-> [doc |-> "enriched",
                       lead_id |-> Get(event.lead_id, NONE),
                       display_name |-> Get(data.display_name, "Unknown"),
                       status_label |-> Get(data.status_label, "Unknown"),
                       date_created |-> Get(data.date_created, NONE),
                       lead_email |-> owner_data.lead_email,
                       lead_owner |-> owner_data.lead_owner,
                       funnel |-> owner_data.funnel,
                       enriched_at |-> now]]

\* mutant: the enriched record is written over the raw object of the lead
enriched_key_raw(lead_id) == SOURCE_PREFIX \o "crm_event_" \o Fmt(lead_id) \o ".json"

\* the key of the enriched record of a lead (both variants)
enriched_key(lead_id) == TARGET_PREFIX \o "enriched_" \o Fmt(lead_id) \o ".json"

\* store_enriched_data: one put_object, no retry; its exception propagates
store_enriched_data_lambda1(enriched, lead_id, outcome) ==
    IF outcome = "ok"
    THEN [exc |-> "", puts |-> << <<enriched_key(lead_id), enriched>> >>]
    ELSE [exc |-> "ClientError", puts |-> <<>>]

\* mutant: the channels are called whatever the configuration says
send_notifications_unconditional(cfg, env) ==
    LET email == IF env.slack = "raise" THEN "skipped" ELSE env.email
    IN  [slack |-> env.slack, email |-> email,
         exc |-> IF env.slack = "raise" \/ email = "raise" THEN "Exception" ELSE ""]

\* send_notifications: slack first; an exception of send_slack skips send_email
send_notifications_lambda1(cfg, env) ==
    LET slack == IF ~cfg.USE_SLACK THEN "off" ELSE env.slack
        email_on == cfg.USE_EMAIL /\ cfg.SNS_TOPIC_ARN # ""
        email == IF slack = "raise" THEN "skipped"
                 ELSE IF ~email_on THEN "off" ELSE env.email
    IN  [slack |-> slack, email |-> email,
         exc |-> IF slack = "raise" \/ email = "raise" THEN "Exception" ELSE ""]

NoNotify == [slack |-> "off", email |-> "off", exc |-> ""]

\* what process_lead did with one reference
LeadResult(status, exc, read, owner, puts, notify) ==
    [status |-> status, exc |-> exc, reads |-> read.attempts, owner |-> owner,
     puts |-> puts, notify |-> notify]

\* mutant: send_notifications is called outside a try, its exception escapes
notification_failure_escapes(notify) == notify.exc

\* how process_lead treats an exception of send_notifications: caught and logged
notification_failure_lambda1(notify) == ""

\* mutant: send_notifications is called before store_enriched_data
process_lead_notify_first(b, ref, cfg, now) ==
    LET env == ref.env
        read == read_s3_json(b, ref.key, env.read)
        lead_id == Get(read.doc.body.event.lead_id, NONE)
        owner == lookup_lead_owner_lambda1(env.lookup)
        enriched == enrich_lead_data_lambda1(read.doc, owner.val, now)
        stored == store_enriched_data_lambda1(enriched.val, lead_id, env.write)
        notify == send_notifications_lambda1(cfg, env)
    IN  IF read.exc # ""
        THEN LeadResult("read_failed", read.exc, read, NoOwner, <<>>, NoNotify)
        ELSE IF ~Truthy(lead_id)
        THEN LeadResult("invalid", "ValueError", read, NoOwner, <<>>, NoNotify)
        ELSE IF owner.exc # ""
        THEN LeadResult("lookup_failed", owner.exc, read, NoOwner, <<>>, NoNotify)
        ELSE IF enriched.exc # ""
        THEN LeadResult("enrich_failed", enriched.exc, read, owner.val, <<>>, NoNotify)
        ELSE IF stored.exc # ""
        THEN LeadResult("write_failed", stored.exc, read, owner.val, <<>>, notify)
        ELSE LeadResult("stored",
                        IF notify.exc = "" THEN "" ELSE notification_failure_lambda1(notify),
                        read, owner.val, stored.puts, notify)

process_lead_lambda1(b, ref, cfg, now) ==
    LET env == ref.env
        read == read_s3_json(b, ref.key, env.read)
        lead_id == Get(read.doc.body.event.lead_id, NONE)
        owner == lookup_lead_owner_lambda1(env.lookup)
        enriched == enrich_lead_data_lambda1(read.doc, owner.val, now)
        stored == store_enriched_data_lambda1(enriched.val, lead_id, env.write)
        notify == send_notifications_lambda1(cfg, env)
    IN  IF read.exc # ""
        THEN LeadResult("read_failed", read.exc, read, NoOwner, <<>>, NoNotify)
        ELSE IF ~Truthy(lead_id)
        THEN LeadResult("invalid", "ValueError", read, NoOwner, <<>>, NoNotify)
        ELSE IF owner.exc # ""
        THEN LeadResult("lookup_failed", owner.exc, read, NoOwner, <<>>, NoNotify)
        ELSE IF enriched.exc # ""
        THEN LeadResult("enrich_failed", enriched.exc, read, owner.val, <<>>, NoNotify)
        ELSE IF stored.exc # ""
        THEN LeadResult("write_failed", stored.exc, read, owner.val, <<>>, NoNotify)
        ELSE LeadResult("stored",
                        IF notify.exc = "" THEN "" ELSE notification_failure_lambda1(notify),
                        read, owner.val, stored.puts, notify)

(***************************************************************************)
(* Enrichment Processor, src/crm-lead-system/lambda/lead_processor.py      *)
(***************************************************************************)
\* s3.get_object once, no retry
get_object_crm(b, key, failures) ==
    IF key \notin DOMAIN b \/ failures >= 1
    THEN [exc |-> "ClientError", attempts |-> 1, sleeps |-> <<>>, doc |-> NoDoc]
    ELSE [exc |-> "", attempts |-> 1, sleeps |-> <<>>, doc |-> b[key]]

\* lookup_lead_owner: the whole body is inside the try
lookup_lead_owner_crm(outcome) ==
    CASE outcome = "200_full" -> [exc |-> "", val |-> FullOwner]
      [] outcome = "200_partial" -> [exc |-> "", val |-> PartialOwner]
      [] OTHER -> [exc |-> "", val |-> NoOwner]

DefaultOwner_crm ==
    [kind |-> "object", lead_email |-> "not-available@example.com",
     lead_owner |-> "Unassigned", funnel |-> "Unknown", lead_id |-> ABSENT]

\* the return statement sits inside `if not owner_data:`; with owner data the
\* function falls off its end and returns None
enrich_lead_data_crm(lead_data, owner, now) ==
    LET event_data == lead_data.body.event.data
        extracted == lead_data.extracted_lead_data
        owner_data == DefaultOwner_crm
    IN  IF ~OwnerFalsy(owner)
        THEN [exc |-> "", val |-> NoEnriched]
        ELSE [exc |-> "",
              val |-> [doc |-> "enriched",
                       lead_id |-> Get(owner_data.lead_id, extracted.lead_id),
                       display_name |-> Get(event_data.display_name, extracted.display_name),
                       status_label |-> Get(event_data.status_label, extracted.status_label),
                       date_created |-> Get(event_data.date_created, extracted.date_created),
                       lead_email |-> Get(owner_data.lead_email, "N/A"),
                       lead_owner |-> Get(owner_data.lead_owner, "Unassigned"),
                       funnel |-> Get(owner_data.funnel, "Unknown"),
                       enriched_at |-> now]]

\* store_enriched_data: one put_object of json.dumps(enriched), "null" for None
store_enriched_data_crm(enriched, lead_id, outcome) ==
    IF outcome = "ok"
    THEN [exc |-> "", puts |-> << <<enriched_key(lead_id), enriched>> >>]
    ELSE [exc |-> "ClientError", puts |-> <<>>]

\* send_slack and send_email each catch every exception; building the message
\* from a None record raises inside the try, before the call is made
send_notifications_crm(cfg, env, enriched) ==
    LET slack == IF ~cfg.USE_SLACK \/ cfg.SLACK_SECRET_NAME = "" THEN "off"
                 ELSE IF enriched.doc = "null" THEN "raise" ELSE env.slack
        email == IF ~(cfg.USE_EMAIL /\ cfg.SNS_TOPIC_ARN # "") THEN "off"
                 ELSE IF enriched.doc = "null" THEN "raise" ELSE env.email
    IN  [slack |-> slack, email |-> email, exc |-> ""]

process_lead_crm(b, ref, cfg, now) ==
    LET env == ref.env
        read == get_object_crm(b, ref.key, env.read)
        lead_id == Get(read.doc.body.event.lead_id, NONE)
        owner == lookup_lead_owner_crm(env.lookup)
        enriched == enrich_lead_data_crm(read.doc, owner.val, now)
        stored == store_enriched_data_crm(enriched.val, lead_id, env.write)
        notify == send_notifications_crm(cfg, env, enriched.val)
    IN  IF read.exc # ""
        THEN LeadResult("read_failed", read.exc, read, NoOwner, <<>>, NoNotify)
        ELSE IF ~Truthy(lead_id)
        THEN LeadResult("dropped", "", read, NoOwner, <<>>, NoNotify)
        ELSE IF owner.exc # ""
        THEN LeadResult("lookup_failed", owner.exc, read, NoOwner, <<>>, NoNotify)
        ELSE IF enriched.exc # ""
        THEN LeadResult("enrich_failed", enriched.exc, read, owner.val, <<>>, NoNotify)
        ELSE IF stored.exc # ""
        THEN LeadResult("write_failed", stored.exc, read, owner.val, <<>>, NoNotify)
        ELSE LeadResult("stored", notify.exc, read, owner.val, stored.puts, notify)

(***************************************************************************)
(* The batch handlers.  A batch is a sequence of queue records, each a     *)
(* sequence of references; `now` is the clock reading of the invocation.   *)
(***************************************************************************)
Unreached ==
    [status |-> "unreached", exc |-> "", reads |-> 0, owner |-> NoOwner, puts |-> <<>>,
     notify |-> NoNotify]

RECURSIVE AllPuts(_)
AllPuts(results) ==
    IF results = <<>> THEN <<>> ELSE Head(results).puts \o AllPuts(Tail(results))

\* the references of one record in order, stopping at the first exception
RECURSIVE process_record_lambda1(_, _, _, _)
process_record_lambda1(b, refs, cfg, now) ==
    IF refs = <<>> THEN <<>>
    ELSE LET r == process_lead_lambda1(b, Head(refs), cfg, now)
         IN  IF r.exc # ""
             THEN <<r>> \o [i \in 1..(Len(refs) - 1) |-> Unreached]
             ELSE <<r>> \o process_record_lambda1(ApplyPuts(b, r.puts), Tail(refs), cfg, now)

RECURSIVE process_record_crm(_, _, _, _)
process_record_crm(b, refs, cfg, now) ==
    IF refs = <<>> THEN <<>>
    ELSE LET r == process_lead_crm(b, Head(refs), cfg, now)
         IN  IF r.exc # ""
             THEN <<r>> \o [i \in 1..(Len(refs) - 1) |-> Unreached]
             ELSE <<r>> \o process_record_crm(ApplyPuts(b, r.puts), Tail(refs), cfg, now)

Failed(results) == \E i \in 1..Len(results) : results[i].exc # ""

\* src/lambda1 lambda_handler: the first exception is logged and re-raised, the
\* records after it are not processed; per record, the results of its references
RECURSIVE records_lambda1(_, _, _, _)
records_lambda1(b, batch, cfg, now) ==
    IF batch = <<>> THEN <<>>
    ELSE LET rs == process_record_lambda1(b, Head(batch), cfg, now)
         IN  IF Failed(rs)
             THEN <<rs>> \o [i \in 1..(Len(batch) - 1) |->
                               [j \in 1..Len(batch[i + 1]) |-> Unreached]]
             ELSE <<rs>> \o records_lambda1(ApplyPuts(b, AllPuts(rs)), Tail(batch), cfg, now)

lambda_handler_lambda1(b, batch, cfg, now) ==
    LET results == records_lambda1(b, batch, cfg, now)
    IN  [results |-> results,
         outcome |-> IF \E i \in 1..Len(results) : Failed(results[i])
                     THEN "raise" ELSE "ok"]

\* src/crm-lead-system lambda_handler: the exception of a record is logged and
\* swallowed, and the return statement sits inside the loop over the records, so
\* the handler returns after the first record
lambda_handler_crm(b, batch, cfg, now) ==
    IF batch = <<>> THEN [results |-> <<>>, outcome |-> "ok"]
    ELSE [results |-> <<process_record_crm(b, Head(batch), cfg, now)>>
                      \o [i \in 1..(Len(batch) - 1) |->
                            [j \in 1..Len(batch[i + 1]) |-> Unreached]],
          outcome |-> "ok"]

(***************************************************************************)
(* State.  bucket: the object store, key -> document.  gw: the last        *)
(* gateway invocation (variant, request, store behaviour, result).  rt:    *)
(* the last direct use of with_retry.                                      *)
(***************************************************************************)
AllOk == [i \in 1..STORE_MAX_ATTEMPTS |-> "ok"]

\* store behaviours, one put_object outcome per attempt; an attempt that is never
\* made (it follows a success or a fatal error) is written "ok", and the transient
\* failures of one invocation carry the same error code
OutSeqs ==
    { o \in [1..STORE_MAX_ATTEMPTS -> PutOutcomes] :
        \A i, j \in 1..STORE_MAX_ATTEMPTS :
            /\ (i < j /\ o[i] \notin TransientCodes) => o[j] = "ok"
            /\ (o[i] \in TransientCodes /\ o[j] \in TransientCodes) => o[i] = o[j] }

ReachesStore_lambda2(body) ==
    /\ parse_body(body).exc = ""
    /\ validate_webhook_lambda2(body).exc = ""
    /\ extract_lead_data_lambda2(body).exc = ""

ReachesStore_lambda(body) ==
    /\ validate_webhook_lambda(body)
    /\ extract_lead_data_lambda(body).exc = ""
    /\ MetadataValid(extract_lead_data_lambda(body).val.lead_id)

NoResult ==
    HandlerResult(create_response(0, RespBody(ABSENT, ABSENT, ABSENT, ABSENT)),
                  NoRun, <<>>, FALSE)

GwInit ==
    [variant |-> "none", req |-> NoBody, outs |-> AllOk, res |-> NoResult,
     overwrote |-> FALSE]

RtInit == [max_attempts |-> 0, calls |-> <<>>, res |-> NoRun]

\* the lead ids answered 200 so far
Accept(acc, res) ==
    IF res.resp.statusCode # 200 THEN acc ELSE acc \cup {res.resp.body.lead_id}

\* the clock readings an invocation can make: one when it stores nothing
NowFor(puts) == IF puts = <<>> THEN {1} ELSE Times

\* the store behaviours an invocation can meet; one when it never calls the store
OutsFor_lambda2(body) == IF ReachesStore_lambda2(body) THEN OutSeqs ELSE {AllOk}

OutsFor_lambda(body) ==
    IF ReachesStore_lambda(body)
    THEN { o \in OutSeqs : \A i \in 2..STORE_MAX_ATTEMPTS : o[i] = "ok" }
    ELSE {AllOk}

\* every invocation of src/lambda2's lambda_handler over the inputs: the request,
\* the store's behaviour, the clock, and what the handler does with them
Invocations_lambda2 ==
    UNION { UNION { { [variant |-> "lambda2", req |-> body, outs |-> outs,
                       res |-> lambda_handler_lambda2(body, outs, now)] :
                      now \in NowFor(lambda_handler_lambda2(body, outs, 1).puts) } :
                    outs \in OutsFor_lambda2(body) } :
            body \in Payloads }

\* every invocation of src/lambda's lambda_handler over the inputs
Invocations_lambda ==
    UNION { UNION { { [variant |-> "lambda", req |-> body, outs |-> outs,
                       res |-> lambda_handler_lambda(body, outs, now)] :
                      now \in NowFor(lambda_handler_lambda(body, outs, 1).puts) } :
                    outs \in OutsFor_lambda(body) } :
            body \in Payloads }

\* whether the write of an invocation replaces an object the store already holds
Overwrites(b, res) == res.puts # <<>> /\ res.puts[1][1] \in DOMAIN b

\* the effect of one gateway invocation on the state
Invoke(inv) ==
    /\ gw' = [variant |-> inv.variant, req |-> inv.req, outs |-> inv.outs,
              res |-> inv.res, overwrote |-> Overwrites(bucket, inv.res)]
    /\ bucket' = ApplyPuts(bucket, inv.res.puts)
    /\ accepted' = Accept(accepted, inv.res)
    /\ UNCHANGED <<rt, config, proc, race, dl, cfn>>

\* one invocation of src/lambda2's lambda_handler
Gateway_lambda2 == \E inv \in Invocations_lambda2 : Invoke(inv)

\* one invocation of src/lambda's lambda_handler
Gateway_lambda == \E inv \in Invocations_lambda : Invoke(inv)

\* one call of a function decorated with with_retry(max_attempts)
RetryCall ==
    \E m \in 1..MaxRetryAttempts :
      \E calls \in [1..m -> CallResults] :
        /\ rt' = [max_attempts |-> m, calls |-> calls, res |-> with_retry(m, calls)]
        /\ UNCHANGED <<bucket, accepted, gw, config, proc, race, dl, cfn>>

\* the deployment with both notification channels switched off (the defaults)
DefaultConfig ==
    [USE_SLACK |-> FALSE, USE_EMAIL |-> FALSE, SNS_TOPIC_ARN |-> "",
     SLACK_SECRET_NAME |-> "slack/webhook"]

ProcInit ==
    [variant |-> "none", batch |-> <<>>, now |-> 0, results |-> <<>>,
     outcome |-> "none", runs |-> 0]

\* a run of process_lead before its first step
RaceRun0 ==
    [pc |-> "read", doc |-> NoDoc, owner |-> NoOwner, enriched |-> NoEnriched,
     exc |-> "", notify |-> NoNotify]

\* no concurrent runs
RaceIdle == [variant |-> "none", lookup |-> "404", run |-> <<>>]

\* the custom-resource event of CloudFormation, as far as handler reads it
NoCfnEvent == [RequestType |-> ABSENT, BucketName |-> ABSENT, QueueArn |-> ABSENT]

\* the provisioning handler before its first invocation
CfnIdle ==
    [event |-> NoCfnEvent, calls |-> <<>>, remaining |-> 0, put |-> "ok",
     responses |-> <<>>, delivered |-> <<>>, exc |-> "", attempts |-> 0,
     outcome |-> "none"]

\* no retry loop has run against a deadline
DlIdle ==
    [attempts |-> 0, calls |-> <<>>, loop |-> "none", outcome |-> "none",
     remaining |-> 0, waits |-> <<>>]

(***************************************************************************)
(* Processor inputs: the raw objects the gateway has stored, the           *)
(* references to them and the batches of references.                       *)
(***************************************************************************)
BodyOf(lead_id, data) ==
    [kind |-> "object", subscription_id |-> ABSENT,
     event |-> [kind |-> "object", lead_id |-> lead_id, action |-> "created",
                data |-> data, id |-> ABSENT]]

BetaData ==
    [kind |-> "object", display_name |-> "Beta LLC", status_label |-> "Potential",
     date_created |-> "2025-01-28T12:00:00+00:00", custom_funnel |-> ABSENT]

\* the envelope the gateway writes for a body it accepts
Stored(body) == Envelope(body, LeadData(body), 1)

\* the raw store the processor starts from: the envelopes of leads L1 and L2, and
\* the envelope src/lambda's gateway stores for a payload whose lead_id is ""
RawStore ==
    (s3_key("L1") :> Stored(BodyOf("L1", AcmeData)))
    @@ (s3_key("L2") :> Stored(BodyOf("L2", BetaData)))
    @@ (s3_key("") :> Stored(BodyOf("", AcmeData)))

MissingKey == SOURCE_PREFIX \o "crm_event_gone.json"

RefKeys == DOMAIN RawStore \cup {MissingKey}

\* the behaviours of the collaborators; reads that fail once or twice before
\* succeeding come with the nominal behaviour of the others
Envs ==
    { e \in [read : 0..READ_RETRIES, lookup : LookupOutcomes,
             write : {"ok", "Throttling", "AccessDenied"},
             slack : ChannelOutcomes, email : ChannelOutcomes] :
        e.read \in 1..(READ_RETRIES - 1) => e = [NominalEnv EXCEPT !.read = e.read] }

\* an input is kept once: the behaviour of a collaborator that is never called
\* while the reference is processed is written as the nominal one
Canonical(r, env) ==
    /\ r.status \in {"read_failed", "invalid", "dropped"} =>
         (env.lookup = NominalEnv.lookup /\ env.write = "ok")
    /\ r.status = "read_failed" => env.read = READ_RETRIES
    /\ r.reads = 1 => env.read \in {0, READ_RETRIES}
    /\ r.status = "enrich_failed" => env.write = "ok"
    /\ r.status # "stored" => (env.slack = "ok" /\ env.email = "ok")
    /\ r.notify.slack \in {"off", "skipped"} => env.slack = "ok"
    /\ r.notify.email \in {"off", "skipped"} => env.email = "ok"
    /\ (r.puts # <<>> /\ r.puts[1][2].doc = "null") =>
         (env.slack = "ok" /\ env.email = "ok")

Ref(key, env) == [key |-> key, env |-> env]

\* the references that batches of more than one reference are made of: the two
\* leads, the object with an empty lead_id and the key the store does not hold
BatchRefs ==
    { Ref(s3_key("L1"), NominalEnv),
      Ref(s3_key("L2"), [NominalEnv EXCEPT !.lookup = "404"]),
      Ref(s3_key(""), NominalEnv),
      Ref(MissingKey, [NominalEnv EXCEPT !.read = READ_RETRIES]) }

\* the references processed alone: lead L1 under every behaviour of the
\* collaborators, and the references above
Refs_lambda1 ==
    [cfg \in Configs |->
       { ref \in { Ref(s3_key("L1"), e) : e \in Envs } :
           Canonical(process_lead_lambda1(RawStore, ref, cfg, 1), ref.env) }
       \cup BatchRefs]

Refs_crm ==
    [cfg \in Configs |->
       { ref \in { Ref(s3_key("L1"), e) : e \in Envs } :
           Canonical(process_lead_crm(RawStore, ref, cfg, 1), ref.env) }
       \cup BatchRefs]

\* batches: one record with one reference, one record with two references, or two
\* records with one reference each
Batches(refs) ==
    { << <<r>> >> : r \in refs }
    \cup { << <<r1, r2>> >> : r1 \in BatchRefs, r2 \in BatchRefs }
    \cup { << <<r1>>, <<r2>> >> : r1 \in BatchRefs, r2 \in BatchRefs }

RECURSIVE Flatten(_)
Flatten(seqs) == IF seqs = <<>> THEN <<>> ELSE Head(seqs) \o Flatten(Tail(seqs))

\* every write of an invocation, in order
Writes(results) == AllPuts(Flatten(results))

Ran(variant, batch, now, r) ==
    /\ proc' = [variant |-> variant, batch |-> batch, now |-> now, results |-> r.results,
                outcome |-> r.outcome, runs |-> proc.runs + 1]
    /\ bucket' = ApplyPuts(bucket, Writes(r.results))
    /\ UNCHANGED <<accepted, gw, rt, config, race, dl, cfn>>

\* the clock reading of the next invocation: one tick per invocation
Clock == proc.runs + 1

\* one invocation of src/lambda1's lambda_handler
Processor_lambda1 ==
    /\ proc.runs < MaxRuns
    /\ \E batch \in Batches(Refs_lambda1[config]) :
         Ran("lambda1", batch, Clock, lambda_handler_lambda1(bucket, batch, config, Clock))

\* one invocation of src/crm-lead-system's lambda_handler
Processor_crm ==
    /\ proc.runs < MaxRuns
    /\ \E batch \in Batches(Refs_crm[config]) :
         Ran("crm", batch, Clock, lambda_handler_crm(bucket, batch, config, Clock))

\* the processor is deployed with some configuration over the raw store
InitProcessor ==
    /\ bucket = RawStore
    /\ accepted = {}
    /\ gw = GwInit
    /\ rt = RtInit
    /\ config \in Configs
    /\ proc = ProcInit
    /\ race = RaceIdle
    /\ dl = DlIdle
    /\ cfn = CfnIdle

NextProcessor == Processor_lambda1 \/ Processor_crm

SpecProcessor == InitProcessor /\ [][NextProcessor]_vars

Init ==
    /\ bucket = <<>>
    /\ accepted = {}
    /\ gw = GwInit
    /\ rt = RtInit
    /\ config = DefaultConfig
    /\ proc = ProcInit
    /\ race = RaceIdle
    /\ dl = DlIdle
    /\ cfn = CfnIdle

NextGateway == Gateway_lambda2 \/ Gateway_lambda

SpecGateway == Init /\ [][NextGateway]_vars

NextRetry == RetryCall

SpecRetry == Init /\ [][NextRetry]_vars

(***************************************************************************)
(* Two concurrent runs of process_lead on the raw event of lead L1.  Each  *)
(* run is its own invocation; the runs interleave at the calls to the      *)
(* store, the lookup and the channels.  race.run[r] holds the position and *)
(* the local variables of run r.                                           *)
(***************************************************************************)
Runs == {1, 2}

RaceKey == s3_key("L1")

RaceEnv == [NominalEnv EXCEPT !.lookup = race.lookup]

\* run r moves to `next`; the other run and the rest of the state stay
RaceMove(r, next) ==
    /\ race' = [race EXCEPT !.run[r] = next]
    /\ UNCHANGED <<accepted, gw, rt, config, proc, dl, cfn>>

\* get the raw object and take its lead_id
Race_read(r) ==
    /\ race.run[r].pc = "read"
    /\ LET read == IF race.variant = "lambda1"
                   THEN read_s3_json(bucket, RaceKey, RaceEnv.read)
                   ELSE get_object_crm(bucket, RaceKey, RaceEnv.read)
           lead_id == Get(read.doc.body.event.lead_id, NONE)
       IN  IF read.exc # ""
           THEN RaceMove(r, [race.run[r] EXCEPT !.pc = "failed", !.exc = read.exc])
           ELSE IF ~Truthy(lead_id)
           THEN RaceMove(r, [race.run[r] EXCEPT
                               !.pc = "failed",
                               !.exc = IF race.variant = "lambda1"
                                       THEN "ValueError" ELSE ""])
           ELSE RaceMove(r, [race.run[r] EXCEPT !.pc = "lookup", !.doc = read.doc])
    /\ UNCHANGED bucket

\* ask the owner lookup
Race_lookup(r) ==
    /\ race.run[r].pc = "lookup"
    /\ LET owner == IF race.variant = "lambda1"
                    THEN lookup_lead_owner_lambda1(RaceEnv.lookup)
                    ELSE lookup_lead_owner_crm(RaceEnv.lookup)
       IN  IF owner.exc # ""
           THEN RaceMove(r, [race.run[r] EXCEPT !.pc = "failed", !.exc = owner.exc])
           ELSE RaceMove(r, [race.run[r] EXCEPT !.pc = "enrich", !.owner = owner.val])
    /\ UNCHANGED bucket

\* build the enriched record, stamped with the clock reading
Race_enrich(r) ==
    /\ race.run[r].pc = "enrich"
    /\ \E now \in Times :
         LET enriched == IF race.variant = "lambda1"
                         THEN enrich_lead_data_lambda1(race.run[r].doc, race.run[r].owner, now)
                         ELSE enrich_lead_data_crm(race.run[r].doc, race.run[r].owner, now)
         IN  IF enriched.exc # ""
             THEN RaceMove(r, [race.run[r] EXCEPT !.pc = "failed", !.exc = enriched.exc])
             ELSE RaceMove(r, [race.run[r] EXCEPT !.pc = "store", !.enriched = enriched.val])
    /\ UNCHANGED bucket

\* put the enriched record
Race_store(r) ==
    /\ race.run[r].pc = "store"
    /\ LET lead_id == Get(race.run[r].doc.body.event.lead_id, NONE)
           stored == IF race.variant = "lambda1"
                     THEN store_enriched_data_lambda1(race.run[r].enriched, lead_id,
                                                      RaceEnv.write)
                     ELSE store_enriched_data_crm(race.run[r].enriched, lead_id,
                                                  RaceEnv.write)
       IN  /\ bucket' = ApplyPuts(bucket, stored.puts)
           /\ IF stored.exc # ""
              THEN RaceMove(r, [race.run[r] EXCEPT !.pc = "failed", !.exc = stored.exc])
              ELSE RaceMove(r, [race.run[r] EXCEPT !.pc = "notify"])

\* notify the channels
Race_notify(r) ==
    /\ race.run[r].pc = "notify"
    /\ LET notify == IF race.variant = "lambda1"
                     THEN send_notifications_lambda1(config, RaceEnv)
                     ELSE send_notifications_crm(config, RaceEnv, race.run[r].enriched)
       IN  RaceMove(r, [race.run[r] EXCEPT
                          !.pc = "done", !.notify = notify,
                          !.exc = IF race.variant = "lambda1" /\ notify.exc # ""
                                  THEN notification_failure_lambda1(notify)
                                  ELSE notify.exc])
    /\ UNCHANGED bucket

\* the two runs start on the stored raw event of L1; both lookups give the same
\* answer
InitRace ==
    /\ bucket = RawStore
    /\ accepted = {}
    /\ gw = GwInit
    /\ rt = RtInit
    /\ config \in Configs
    /\ proc = ProcInit
    /\ race \in { [variant |-> v, lookup |-> lk, run |-> [r \in Runs |-> RaceRun0]] :
                    v \in {"lambda1", "crm"}, lk \in {"200_full", "200_partial", "404"} }
    /\ dl = DlIdle
    /\ cfn = CfnIdle

ReadStep == \E r \in Runs : Race_read(r)

LookupStep == \E r \in Runs : Race_lookup(r)

EnrichStep == \E r \in Runs : Race_enrich(r)

StoreStep == \E r \in Runs : Race_store(r)

NotifyStep == \E r \in Runs : Race_notify(r)

NextRace == ReadStep \/ LookupStep \/ EnrichStep \/ StoreStep \/ NotifyStep

SpecRace == InitRace /\ [][NextRace]_vars

(***************************************************************************)
(* Retry loops against the host's execution deadline.  A loop runs with    *)
(* `remaining` ms left when its first attempt ends; the attempts take no   *)
(* time, the waits between them do, and the host ends the process when the *)
(* time is used up.  dl: the last such run (the loop, what each attempt    *)
(* does, the time left, how the run ends, the attempts made and the waits  *)
(* begun).                                                                 *)
(***************************************************************************)
\* src/lambda3/notification.py
MAX_RETRIES == 5
\* RETRY_DELAY = 2 seconds, in milliseconds
RETRY_DELAY_MS == 2000
\* the margin with_retries compares get_remaining_time_in_millis() against
DEADLINE_MARGIN_MS == 5000

\* the time left when the first attempt ends, in ms
RemainingMs == {200, 900, 2500, 5500, 11500, 60000}

\* with_retries: func is called up to MAX_RETRIES times; after a ClientError the
\* loop re-raises if less than the margin is left or the attempts are used up, and
\* sleeps RETRY_DELAY * attempt otherwise; any other exception propagates
RECURSIVE with_retries(_, _, _)
with_retries(calls, attempt, remaining) ==
    IF attempt > MAX_RETRIES
    THEN [outcome |-> "None", attempts |-> attempt - 1, sleeps |-> <<>>]
    ELSE CASE calls[attempt] = "return" ->
                [outcome |-> "return", attempts |-> attempt, sleeps |-> <<>>]
           [] calls[attempt] = "ClientError" ->
                IF remaining < DEADLINE_MARGIN_MS \/ attempt = MAX_RETRIES
                THEN [outcome |-> "ClientError", attempts |-> attempt, sleeps |-> <<>>]
                ELSE LET rest == with_retries(calls, attempt + 1,
                                              remaining - RETRY_DELAY_MS * attempt)
                     IN  [rest EXCEPT !.sleeps = <<RETRY_DELAY_MS * attempt>> \o @]
           [] OTHER ->
                [outcome |-> "raise", attempts |-> attempt, sleeps |-> <<>>]

\* the wait during which the time runs out, 0 if the run ends in time
RECURSIVE KilledAt(_, _, _)
KilledAt(waits, remaining, i) ==
    IF i > Len(waits) THEN 0
    ELSE IF waits[i] >= remaining THEN i
    ELSE KilledAt(waits, remaining - waits[i], i + 1)

\* a run of a loop on the host: as the loop ends, or ended by the host in a wait
UnderDeadline(loop, calls, remaining, res, waits) ==
    LET k == KilledAt(waits, remaining, 1)
    IN  [DlIdle EXCEPT
           !.loop = loop,
           !.calls = calls,
           !.remaining = remaining,
           !.outcome = IF k = 0 THEN res.outcome ELSE "killed",
           !.attempts = IF k = 0 THEN res.attempts ELSE k,
           !.waits = IF k = 0 THEN waits ELSE SubSeq(waits, 1, k)]

DlRun(run) ==
    /\ dl' = run
    /\ UNCHANGED <<bucket, accepted, gw, rt, config, proc, race, cfn>>

\* store_lead_in_s3 under with_retry(max_attempts=3), the jitter at either end
Deadline_with_retry ==
    \E calls \in [1..STORE_MAX_ATTEMPTS -> {"return", "RetryableError"}] :
      \E remaining \in RemainingMs, jitter \in {"min", "max"} :
        LET res == with_retry(STORE_MAX_ATTEMPTS, calls)
            waits == [i \in 1..Len(res.sleeps) |->
                        IF jitter = "min" THEN res.sleeps[i].min ELSE res.sleeps[i].max]
        IN  DlRun(UnderDeadline("with_retry", calls, remaining, res, waits))

\* read_s3_json with the first `failures` get_object calls failing
Deadline_read_s3_json ==
    \E failures \in 0..READ_RETRIES, remaining \in RemainingMs :
        LET res == read_s3_json(RawStore, s3_key("L1"), failures)
            calls == [i \in 1..res.attempts |->
                        IF i <= failures THEN "ClientError" ELSE "return"]
        IN  DlRun(UnderDeadline("read_s3_json", calls, remaining,
                                [outcome |-> IF res.exc = "" THEN "return" ELSE res.exc,
                                 attempts |-> res.attempts],
                                res.sleeps))

\* the bucket-notification call under with_retries
Deadline_with_retries ==
    \E calls \in [1..MAX_RETRIES -> {"return", "ClientError"}] :
      \E remaining \in RemainingMs :
        LET res == with_retries(calls, 1, remaining)
        IN  DlRun(UnderDeadline("with_retries", calls, remaining, res, res.sleeps))

NextDeadline == Deadline_with_retry \/ Deadline_read_s3_json \/ Deadline_with_retries

SpecDeadline == Init /\ [][NextDeadline]_vars

(***************************************************************************)
(* Provisioning handler, src/lambda3/notification.py                       *)
(***************************************************************************)
\* the events: every request type, one that handler does not know and none,
\* with and without the BucketName and QueueArn properties
CfnEvents ==
    { [RequestType |-> t, BucketName |-> b, QueueArn |-> q] :
        t \in {"Create", "Update", "Delete", "Import", ABSENT},
        b \in {"leads-bucket", ABSENT},
        q \in {"arn:aws:sqs:leads", ABSENT} }

\* the bucket-notification call fails k times with a ClientError and then returns
\* or raises another exception
Fails(k, last) == [i \in 1..MAX_RETRIES |-> IF i <= k THEN "ClientError" ELSE last]

CfnCalls == { Fails(k, last) : k \in 0..MAX_RETRIES, last \in {"return", "raise"} }

\* the event reaches with_retries
Configures(event) ==
    /\ Truthy(event.BucketName)
    /\ \/ event.RequestType \in {"Create", "Update"} /\ Truthy(event.QueueArn)
       \/ event.RequestType = "Delete"

\* send_response: the PUT to the ResponseURL; its exception is logged and
\* swallowed
send_response(run, status, exc) ==
    [run EXCEPT !.responses = @ \o <<status>>,
                !.delivered = IF run.put = "ok" THEN @ \o <<status>> ELSE @,
                !.exc = exc,
                !.outcome = "return"]

\* handler on the host: the run ends with handler, or is ended by the host
\* while with_retries waits
handler(event, calls, remaining, put) ==
    LET run == [CfnIdle EXCEPT !.event = event, !.calls = calls,
                               !.remaining = remaining, !.put = put]
    IN  IF event.RequestType = ABSENT THEN send_response(run, "FAILED", "KeyError")
        ELSE IF ~Truthy(event.BucketName)
        THEN send_response(run, "FAILED", "ValueError")
        ELSE IF event.RequestType \in {"Create", "Update"} /\ ~Truthy(event.QueueArn)
        THEN send_response(run, "FAILED", "ValueError")
        ELSE IF event.RequestType \in {"Create", "Update", "Delete"}
        THEN LET res == with_retries(calls, 1, remaining)
                 k == KilledAt(res.sleeps, remaining, 1)
             IN  IF k # 0
                 THEN [run EXCEPT !.attempts = k, !.outcome = "killed"]
                 ELSE IF res.outcome = "return"
                 THEN send_response([run EXCEPT !.attempts = res.attempts],
                                    "SUCCESS", "")
                 ELSE send_response([run EXCEPT !.attempts = res.attempts], "FAILED",
                                    IF res.outcome = "raise" THEN "Exception"
                                    ELSE res.outcome)
        ELSE send_response(run, "SUCCESS", "")

\* an input is kept once: where with_retries is not called, or its first call
\* does not fail, the calls and the time left are written as the nominal ones
CfnInputs ==
    { in \in [event : CfnEvents, calls : CfnCalls, remaining : RemainingMs,
              put : {"ok", "raise"}] :
        /\ ~Configures(in.event) => in.calls = Fails(0, "return")
        /\ in.calls[1] # "ClientError" => in.remaining = 60000 }

Provisions == { handler(in.event, in.calls, in.remaining, in.put) : in \in CfnInputs }

\* one invocation of handler by CloudFormation
Provision ==
    /\ \E run \in Provisions : cfn' = run
    /\ UNCHANGED <<bucket, accepted, gw, rt, config, proc, race, dl>>

NextProvision == Provision

SpecProvision == Init /\ [][NextProvision]_vars

(***************************************************************************)
(* Redelivery: the queue delivers a batch, and delivers it again while the *)
(* invocation fails (lambda_handler raises).  The store and the lookup      *)
(* respond from the first redelivery on.                                    *)
(***************************************************************************)
\* a reference on redelivery: get_object and put_object succeed and the lookup
\* answers; an answer the lookup gave before (a document or a 404) is kept, and a
\* key the store does not hold stays missing
Healed(ref) ==
    Ref(ref.key,
        [ref.env EXCEPT
           !.read = IF ref.key \in DOMAIN RawStore THEN 0 ELSE READ_RETRIES,
           !.write = "ok",
           !.lookup = IF @ \in {"timeout", "parse_error"} THEN "200_full" ELSE @])

HealedBatch(batch) ==
    [i \in 1..Len(batch) |-> [j \in 1..Len(batch[i]) |-> Healed(batch[i][j])]]

\* the first delivery of a batch to src/lambda1's lambda_handler
Deliver_lambda1 == proc.runs = 0 /\ Processor_lambda1

\* the first delivery of a batch to src/crm-lead-system's lambda_handler
Deliver_crm == proc.runs = 0 /\ Processor_crm

\* the batch of a failed invocation becomes visible again and is delivered to the
\* same handler
Redeliver ==
    /\ proc.runs \in 1..(MaxDeliveries - 1)
    /\ proc.outcome = "raise"
    /\ LET batch == HealedBatch(proc.batch)
       IN  Ran(proc.variant, batch, Clock,
               IF proc.variant = "lambda1"
               THEN lambda_handler_lambda1(bucket, batch, config, Clock)
               ELSE lambda_handler_crm(bucket, batch, config, Clock))

NextRedelivery == Deliver_lambda1 \/ Deliver_crm \/ Redeliver

SpecRedelivery == InitProcessor /\ [][NextRedelivery]_vars /\ WF_vars(Redeliver)


(***************************************************************************)
(* Claims about the Ingestion Gateway and the retry decorator.             *)
(***************************************************************************)
Invoked == gw.variant # "none"

Status == gw.res.resp.statusCode

\* the payload parsed as JSON and lacks event, lead_id or data, or its action is
\* not "created"
RejectablePayload(body) ==
    /\ body.kind # "malformed"
    /\ \/ body.kind # "object"
       \/ body.event.kind # "object"
       \/ body.event.lead_id = ABSENT
       \/ body.event.data.kind = "absent"
       \/ body.event.action # "created"

\* C1: a payload that is missing event, lead_id or data, or whose action is not
\* "created", is answered 400 and nothing is written to the store.
C1_InvalidPayloadRejected ==
    (Invoked /\ RejectablePayload(gw.req)) => (Status = 400 /\ gw.res.puts = <<>>)

\* the part of C1 the code keeps: such a payload never causes a write and is never
\* answered 200
C1_InvalidPayloadNoWrite ==
    (Invoked /\ RejectablePayload(gw.req)) => (Status \in {400, 500} /\ gw.res.puts = <<>>)

\* a well-formed payload: an event object with a non-empty lead_id, action "created"
\* and a data object
ValidPayload(body) ==
    /\ body.kind = "object"
    /\ body.event.kind = "object"
    /\ Truthy(body.event.lead_id)
    /\ body.event.action = "created"
    /\ body.event.data.kind = "object"

\* C2: for a valid payload and a store that does not fail, one invocation makes
\* exactly one durable write, to SOURCE_PREFIX + "crm_event_" + lead_id + ".json",
\* and answers 200 with that key and the lead_id (L1 gives source/crm_event_L1.json).
C2_ValidPayloadOneWrite ==
    (Invoked /\ ValidPayload(gw.req) /\ gw.outs = AllOk) =>
        LET lead_id == gw.req.event.lead_id
            key == SOURCE_PREFIX \o "crm_event_" \o lead_id \o ".json"
        IN  /\ Status = 200
            /\ gw.res.attempts = 1
            /\ Len(gw.res.puts) = 1
            /\ gw.res.puts[1][1] = key
            /\ key \in DOMAIN bucket
            /\ gw.res.resp.body.lead_id = lead_id
            /\ gw.res.resp.body.s3_key = key
            /\ (lead_id = "L1" => key = "source/crm_event_L1.json")

C2_Witness ==
    /\ gw.variant = "lambda2"
    /\ gw.req.event.lead_id = "L1"
    /\ gw.outs = AllOk
    /\ Status = 200
    /\ "source/crm_event_L1.json" \in DOMAIN bucket

\* C3: after any sequence of accepted requests the raw store holds exactly one
\* object per distinct accepted lead_id, the one of the latest accepted request for
\* it: a re-submission overwrites the object at the same key and adds none.
C3_OneObjectPerLead ==
    /\ Cardinality(RawKeys(bucket)) = Cardinality(accepted)
    /\ \A l \in accepted :
         \E k \in RawKeys(bucket) : bucket[k].extracted_lead_data.lead_id = l
    /\ (Invoked /\ Status = 200) =>
         /\ gw.res.resp.body.s3_key \in RawKeys(bucket)
         /\ bucket[gw.res.resp.body.s3_key] = gw.res.puts[1][2]

\* a payload was accepted again, at another time, and another lead was accepted too
C3_Witness ==
    /\ accepted = {"L1", "L2"}
    /\ gw.overwrote
    /\ Status = 200
    /\ gw.req.event.lead_id = "L1"
    /\ bucket["source/crm_event_L1.json"].processed_at = 1
    /\ bucket["source/crm_event_L2.json"].processed_at = 2

RECURSIVE LeadingFailures(_)
LeadingFailures(calls) ==
    IF calls = <<>> \/ Head(calls) # "RetryableError" THEN 0
    ELSE 1 + LeadingFailures(Tail(calls))

\* C4: an operation that fails transiently on its first k calls, k < max_attempts,
\* and then succeeds makes with_retry return after exactly k+1 attempts; one that
\* always fails transiently makes it raise after exactly max_attempts attempts.
C4_RetryAttempts ==
    rt.max_attempts > 0 =>
        LET k == LeadingFailures(rt.calls)
        IN  /\ (k < rt.max_attempts /\ rt.calls[k + 1] = "return") =>
                 (rt.res.outcome = "return" /\ rt.res.attempts = k + 1
                  /\ Len(rt.res.sleeps) = k)
            /\ k = rt.max_attempts =>
                 (rt.res.outcome = "RetryableError" /\ rt.res.attempts = rt.max_attempts
                  /\ Len(rt.res.sleeps) = rt.max_attempts - 1)

C4_Witness ==
    /\ rt.max_attempts = 3
    /\ rt.calls = <<"RetryableError", "RetryableError", "return">>
    /\ rt.res.outcome = "return"
    /\ rt.res.attempts = 3

\* C5: only the store errors tagged transient are retried: every attempt before the
\* last one failed with Throttling, SlowDown or RequestTimeout, and a write that
\* fails otherwise makes that attempt the last, waits no more and is answered 500.
C5_OnlyTransientRetried ==
    (Invoked /\ gw.res.attempts >= 1) =>
        LET n == gw.res.attempts
        IN  /\ \A j \in 1..(n - 1) : gw.outs[j] \in {"Throttling", "SlowDown", "RequestTimeout"}
            /\ Len(gw.res.sleeps) = n - 1
            /\ gw.outs[1] \in {"AccessDenied", "Exception"} =>
                 (n = 1 /\ gw.res.sleeps = <<>>)
            /\ gw.outs[n] \in {"AccessDenied", "Exception"} =>
                 (Status = 500 /\ gw.res.puts = <<>>)

C5_Witness ==
    /\ gw.variant = "lambda2"
    /\ gw.outs[1] = "AccessDenied"
    /\ gw.res.attempts = 1
    /\ gw.res.sleeps = <<>>
    /\ Status = 500

RefsRun ==
    { <<i, j>> \in (1..Len(proc.batch)) \X (1..2) : j <= Len(proc.batch[i]) }

Result(ij) == proc.results[ij[1]][ij[2]]

Input(ij) == proc.batch[ij[1]][ij[2]]

LookupFailures == {"404", "timeout", "parse_error"}

\* C7: for a raw event whose owner lookup fails or returns not-found, the stored
\* enriched record has lead_owner "Unassigned", funnel "Unknown" and lead_email
\* "not-available@example.com", all three together.
C7_DefaultsOnLookupFailure ==
    \A ij \in RefsRun :
        (Result(ij).status = "stored" /\ Input(ij).env.lookup \in LookupFailures) =>
            LET rec == Result(ij).puts[1][2]
            IN  /\ rec.lead_owner = "Unassigned"
                /\ rec.funnel = "Unknown"
                /\ rec.lead_email = "not-available@example.com"

\* the last write of an invocation to a key
RECURSIVE LastPut(_, _)
LastPut(puts, key) ==
    IF puts = <<>> THEN NoDoc
    ELSE IF puts[Len(puts)][1] = key THEN puts[Len(puts)][2]
    ELSE LastPut(SubSeq(puts, 1, Len(puts) - 1), key)

FailureStatuses == {"read_failed", "invalid", "lookup_failed", "enrich_failed", "write_failed"}

\* C8: for every reference whose enriched write succeeded, whatever the chat and
\* email channels do, the enriched record stays stored and neither the reference
\* nor, because of it, the invocation is reported as failed.
C8_NotificationNeverFailsEnrichment ==
    /\ \A ij \in RefsRun :
         Result(ij).puts # <<>> =>
            LET key == Result(ij).puts[1][1]
            IN  /\ Result(ij).status = "stored"
                /\ Result(ij).exc = ""
                /\ key \in DOMAIN bucket
                /\ bucket[key] = LastPut(Writes(proc.results), key)
    /\ proc.outcome = "raise" =>
         \E ij \in RefsRun : Result(ij).status \in FailureStatuses

\* the chat channel raised after the write and the invocation ended normally
C8_Witness ==
    /\ proc.variant = "lambda1"
    /\ proc.outcome = "ok"
    /\ \E ij \in RefsRun :
         /\ Result(ij).status = "stored"
         /\ Result(ij).notify.slack = "raise"
         /\ Result(ij).notify.email = "skipped"
         /\ Result(ij).puts[1][1] \in DOMAIN bucket

\* what lookup_lead_owner is to return for each behaviour of the lookup service
ExpectedOwner(outcome) ==
    IF outcome = "200_full" THEN FullOwner
    ELSE IF outcome = "200_partial" THEN PartialOwner
    ELSE NoOwner

RaceDone == \A r \in Runs : race.run[r].pc \in {"done", "failed"}

\* C9: when two concurrent runs process the raw event of L1 and the lookup gives
\* {"lead_owner": "Jane"} to both, then in every interleaving the final enriched
\* object of L1 has lead_owner "Jane" and is the complete output of one of the runs.
C9_ConcurrentRunsJane ==
    (race.lookup = "200_partial" /\ RaceDone) =>
        LET key == enriched_key("L1")
        IN  /\ key \in DOMAIN bucket
            /\ bucket[key].doc = "enriched"
            /\ bucket[key].lead_owner = "Jane"
            /\ \E r \in Runs :
                 race.run[r].pc = "done" /\ bucket[key] = race.run[r].enriched

(***************************************************************************)
(* Claims about batches, failures and notification channels.               *)
(***************************************************************************)
\* what process_lead does with a reference of the last batch when it is the only
\* reference processed (the processor never writes under the raw prefix)
AloneResult(ij) ==
    IF proc.variant = "lambda1"
    THEN process_lead_lambda1(RawStore, Input(ij), config, proc.now)
    ELSE process_lead_crm(RawStore, Input(ij), config, proc.now)

\* C11: within one batch invocation a failure on one reference does not prevent
\* the others from being processed: every reference whose own read, merge and write
\* succeed has its enriched record stored by the end of the invocation.
C11_FailureDoesNotBlockOthers ==
    (\E kl \in RefsRun : Result(kl).status \in FailureStatuses) =>
        \A ij \in RefsRun :
            AloneResult(ij).status = "stored" =>
                /\ Result(ij).status = "stored"
                /\ AloneResult(ij).puts[1][1] \in DOMAIN bucket

\* C12: a stored object without a lead_id is dropped: no enriched record, no
\* notification, and no failure signalled for it, so it is not redelivered.
C12_MissingLeadIdDropped ==
    \A ij \in RefsRun :
        Result(ij).status \in {"invalid", "dropped"} =>
            /\ Result(ij).puts = <<>>
            /\ Result(ij).notify = NoNotify
            /\ Result(ij).exc = ""
            /\ proc.outcome = "raise" =>
                 \E kl \in RefsRun : Result(kl).status \in FailureStatuses \ {"invalid"}

\* C13: a read that still fails after the 3 bounded attempts propagates out of the
\* invocation (so the reference is redelivered) and no enriched record is written
\* for that reference.
C13_ReadFailurePropagates ==
    \A ij \in RefsRun :
        Result(ij).status = "read_failed" =>
            /\ Result(ij).reads = READ_RETRIES
            /\ Result(ij).puts = <<>>
            /\ proc.outcome = "raise"

\* C14: the enriched write is retried like the raw write: when its first attempt
\* meets a transient store error (env.write is the outcome of the first put_object
\* call, the store answers the later ones) the record still ends stored in the
\* same invocation.
C14_EnrichedWriteRetried ==
    \A ij \in RefsRun :
        (Result(ij).status \in {"write_failed", "stored"}
         /\ Input(ij).env.write \in TransientCodes) =>
            /\ Result(ij).status = "stored"
            /\ enriched_key("L1") \in DOMAIN bucket

BothChannels == config.USE_SLACK /\ config.USE_EMAIL /\ config.SNS_TOPIC_ARN # ""

Attempted == {"ok", "raise"}

\* C15: with both channels enabled, a failure of one channel for a record does not
\* stop the other from being attempted for it and does not reach the caller as an
\* error.
C15_ChannelsIsolated ==
    \A ij \in RefsRun :
        (BothChannels /\ Result(ij).status = "stored"
         /\ "raise" \in {Result(ij).notify.slack, Result(ij).notify.email}) =>
            /\ Result(ij).notify.slack \in Attempted
            /\ Result(ij).notify.email \in Attempted
            /\ Result(ij).exc = ""

Populated(v) == v \notin {ABSENT, NONE}

\* C16: every enriched object stored is fully populated: lead_id, display_name,
\* status_label, lead_email, lead_owner, funnel and enriched_at are present and
\* non-null for every lookup outcome; a null document is never stored; a lookup
\* that lacks fields has them replaced by the defaults.
C16_EnrichedFullyPopulated ==
    \A ij \in RefsRun :
        /\ \A n \in 1..Len(Result(ij).puts) :
             LET rec == Result(ij).puts[n][2]
             IN  /\ rec.doc = "enriched"
                 /\ Populated(rec.lead_id) /\ Populated(rec.display_name)
                 /\ Populated(rec.status_label) /\ Populated(rec.lead_email)
                 /\ Populated(rec.lead_owner) /\ Populated(rec.funnel)
                 /\ rec.enriched_at >= 1
        /\ Result(ij).status # "enrich_failed"

\* C17: when the lookup returns a result the enriched record takes lead_email,
\* lead_owner and funnel from it, display_name, status_label and date_created from
\* the raw event, and is stamped with enriched_at.
C17_LookupFieldsTakePrecedence ==
    \A ij \in RefsRun :
        (Input(ij).env.lookup = "200_full" /\ Result(ij).status = "stored") =>
            LET rec == Result(ij).puts[1][2]
                data == RawStore[Input(ij).key].body.event.data
            IN  /\ rec.lead_email = FullOwner.lead_email
                /\ rec.lead_owner = FullOwner.lead_owner
                /\ rec.funnel = FullOwner.funnel
                /\ rec.display_name = Get(data.display_name, "Unknown")
                /\ rec.status_label = Get(data.status_label, "Unknown")
                /\ rec.date_created = Get(data.date_created, NONE)
                /\ rec.enriched_at = proc.now

\* C20: a channel is called only if the configuration enables it: the chat webhook
\* only when USE_SLACK is true, the topic only when USE_EMAIL is true and a topic
\* is configured; with both disabled no notification call is made and the enriched
\* record is still stored.
C20_OnlyEnabledChannelsCalled ==
    \A ij \in RefsRun :
        /\ Result(ij).notify.slack \in Attempted => config.USE_SLACK
        /\ Result(ij).notify.email \in Attempted =>
             (config.USE_EMAIL /\ config.SNS_TOPIC_ARN # "")
        /\ (~config.USE_SLACK /\ ~config.USE_EMAIL /\ AloneResult(ij).status = "stored"
            /\ Result(ij).status # "unreached") =>
             /\ Result(ij).status = "stored"
             /\ Result(ij).notify = NoNotify
             /\ Result(ij).puts[1][1] \in DOMAIN bucket

\* both channels disabled, the record of L1 stored without a notification call
C20_Witness ==
    /\ ~config.USE_SLACK /\ ~config.USE_EMAIL
    /\ proc.variant = "lambda1"
    /\ \E ij \in RefsRun :
         /\ Result(ij).status = "stored"
         /\ Result(ij).notify = NoNotify
         /\ Result(ij).puts[1][1] = "target/enriched_L1.json"
    /\ "target/enriched_L1.json" \in DOMAIN bucket

(***************************************************************************)
(* Claims about what the gateway accepts.                                  *)
(***************************************************************************)
\* C18: every raw envelope stored and every request answered 200 has a non-empty
\* lead_id and action "created"; a payload whose lead_id is present but empty or
\* null is not accepted and causes no write.
C18_AcceptedHasLeadId ==
    /\ \A k \in RawKeys(bucket) :
         /\ Truthy(bucket[k].body.event.lead_id)
         /\ bucket[k].body.event.action = "created"
    /\ (Invoked /\ Status = 200) =>
         (Truthy(gw.req.event.lead_id) /\ gw.req.event.action = "created")
    /\ (Invoked /\ gw.req.kind = "object" /\ gw.req.event.kind = "object"
        /\ gw.req.event.lead_id \in {"", NONE}) =>
         (Status # 200 /\ gw.res.puts = <<>>)

(***************************************************************************)
(* Claims about the execution deadline.                                    *)
(***************************************************************************)
\* C19: on approaching the deadline every retry loop (with_retry, read_s3_json,
\* with_retries) aborts after the failed attempt and surfaces the failure instead
\* of waiting for an attempt it cannot complete: no run is ended by the host in a
\* wait, and a loop whose attempt fails with less time left than its next wait
\* makes no further attempt and raises.
C19_RetryLoopsAbortAtDeadline ==
    dl.loop # "none" =>
        /\ dl.outcome # "killed"
        /\ \A i \in 1..Len(dl.waits) : dl.attempts > i

(***************************************************************************)
(* Claims about the processor's writes, ordering and acknowledgement.      *)
(***************************************************************************)
\* the lead_id the raw object of a reference carries
RawLeadId(ref) == RawStore[ref.key].body.event.lead_id

\* C21: the processor never writes, overwrites or deletes a raw object: after any
\* sequence of invocations the objects under source/ are unchanged, and every
\* store write of a run goes to TARGET_PREFIX + "enriched_" + lead_id + ".json" of
\* the lead being processed.
C21_RawObjectsUntouched ==
    /\ \A k \in DOMAIN RawStore : k \in DOMAIN bucket /\ bucket[k] = RawStore[k]
    /\ RawKeys(bucket) = DOMAIN RawStore
    /\ (DOMAIN bucket) \ (DOMAIN RawStore) \subseteq
         { TARGET_PREFIX \o "enriched_" \o l \o ".json" : l \in {"L1", "L2"} }
    /\ \A ij \in RefsRun :
         \A n \in 1..Len(Result(ij).puts) :
            /\ n = 1
            /\ Result(ij).puts[n][1] =
                 TARGET_PREFIX \o "enriched_" \o RawLeadId(Input(ij)) \o ".json"

\* two invocations have written enriched records and the raw object of L1 is as
\* the gateway stored it
C21_Witness ==
    /\ proc.runs = 2
    /\ \E ij \in RefsRun : Result(ij).status = "stored" /\ Input(ij).key = s3_key("L1")
    /\ "target/enriched_L1.json" \in DOMAIN bucket
    /\ bucket["source/crm_event_L1.json"] = RawStore["source/crm_event_L1.json"]

\* C23: the notification dispatch of a reference starts only after its enriched
\* record is stored; when the enriched write fails no notification is sent for the
\* reference in that run.
C23_NotifyOnlyAfterStore ==
    \A ij \in RefsRun :
        /\ (Result(ij).notify.slack \in Attempted \/ Result(ij).notify.email \in Attempted) =>
             /\ Result(ij).status = "stored"
             /\ Len(Result(ij).puts) = 1
             /\ Result(ij).puts[1][1] \in DOMAIN bucket
        /\ Result(ij).status # "stored" => Result(ij).notify = NoNotify

\* the enriched write failed with the chat channel enabled, and nothing was sent
C23_Witness ==
    /\ config.USE_SLACK
    /\ \E ij \in RefsRun :
         /\ Result(ij).status = "write_failed"
         /\ Result(ij).notify = NoNotify
         /\ Input(ij).env.slack = "ok"
    /\ "target/enriched_L1.json" \notin DOMAIN bucket

\* C24: an invocation returns success only if every reference of every record of
\* the batch was enriched and stored or dropped as invalid; a reference whose read
\* or write failed, or that was never reached, makes the invocation fail.
C24_NoAckWhileUnprocessed ==
    proc.outcome = "ok" =>
        \A ij \in RefsRun : Result(ij).status \in {"stored", "dropped", "invalid"}

(***************************************************************************)
(* Claims about the extraction and about the two gateway variants.         *)
(***************************************************************************)
\* the result of extract_lead_data of the variant last invoked, on its request
Extracted ==
    IF gw.variant = "lambda" THEN extract_lead_data_lambda(gw.req)
    ELSE extract_lead_data_lambda2(gw.req)

\* C22: for every payload that carries the funnel custom field, the result of
\* extract_lead_data has a custom_fields mapping whose funnel entry is the value
\* of that field.
C22_CustomFieldsExtracted ==
    (/\ Invoked /\ gw.req.kind = "object" /\ gw.req.event.kind = "object"
     /\ gw.req.event.data.kind = "object"
     /\ gw.req.event.data.custom_funnel # ABSENT
     /\ Extracted.exc = "") =>
        /\ "custom_fields" \in DOMAIN Extracted.val
        /\ Extracted.val.custom_fields.funnel = gw.req.event.data.custom_funnel

\* what the other gateway variant answers to the last request on a store that
\* does not fail
OtherVariant ==
    IF gw.variant = "lambda" THEN lambda_handler_lambda2(gw.req, AllOk, 1)
    ELSE lambda_handler_lambda(gw.req, AllOk, 1)

\* the keys written by an invocation
PutKeys(res) == { res.puts[n][1] : n \in 1..Len(res.puts) }

\* C26: on a store that does not fail the two gateway variants are equivalent: for
\* every payload they return the same status code and make the same durable write
\* (the same key, or none).
C26_GatewayVariantsEquivalent ==
    (Invoked /\ gw.outs = AllOk) =>
        /\ OtherVariant.resp.statusCode = Status
        /\ PutKeys(OtherVariant) = PutKeys(gw.res)

(***************************************************************************)
(* Claim about redelivery.                                                 *)
(***************************************************************************)
\* the batch is settled: the invocation was acknowledged, or the batch was
\* delivered MaxDeliveries times, all but the first with store and lookup responding
Settled == proc.runs > 0 /\ (proc.outcome = "ok" \/ proc.runs = MaxDeliveries)

\* the references of the batch to a valid raw event: the store holds the object
\* and the object carries a lead_id
ValidRefs ==
    { ij \in RefsRun : /\ Input(ij).key \in DOMAIN RawStore
                       /\ Truthy(RawLeadId(Input(ij))) }

\* the batch holds only references to valid raw events and to structurally
\* invalid objects (objects with no lead_id)
OnlyValidOrInvalid == \A ij \in RefsRun : Input(ij).key \in DOMAIN RawStore

\* C25: under redelivery of failed batches, with a store and a lookup that respond,
\* every reference to a valid raw event is eventually enriched and stored, also when
\* a reference to an object with no lead_id precedes it in the batch: once the batch
\* is settled the enriched record of each valid reference is in the store.
C25_ValidEventuallyEnriched ==
    (Settled /\ OnlyValidOrInvalid) =>
        \A ij \in ValidRefs : enriched_key(RawLeadId(Input(ij))) \in DOMAIN bucket

(***************************************************************************)
(* Claim about the provisioning handler.                                   *)
(***************************************************************************)
\* C27: every invocation of the provisioning handler calls send_response exactly
\* once and never finishes without responding: FAILED exactly when an exception
\* occurred (a missing BucketName, a missing QueueArn on Create or Update, or the
\* bucket-notification call still failing), SUCCESS otherwise.
C27_ExactlyOneResponse ==
    cfn.outcome # "none" =>
        /\ Len(cfn.responses) = 1
        /\ cfn.responses[1] = "FAILED" <=> cfn.exc # ""

====
